---- MODULE Spec2Model ----
(***************************************************************************)
(* Model of cyclonedx/bom/reader.py: the resolution of a requirements      *)
(* manifest into a deduplicated component list and its dependency records. *)
(*                                                                         *)
(* Python values are modelled as follows.                                  *)
(*   - a str that may be None: a string, None being the string PyNone;     *)
(*   - an object that may be None: a record, None being the record None;   *)
(*   - a list: a sequence; a dict: a sequence of [key, value] entries in   *)
(*     insertion order with pairwise distinct keys;                        *)
(*   - a version string: the record of its spelling, see VersionString.    *)
(***************************************************************************)
EXTENDS Integers, Sequences, FiniteSets, TLC

VARIABLES
    pc,              \* position of read_bom: "resolve", "dependencies", "generate", "done", "raised"
    manifest,        \* the requirements the generator requirements.parse(fd) has yielded so far
    all_components,  \* what get_component returned for each of them (a component or None)
    components,      \* read_bom's local list `components`
    added_purls,     \* read_bom's local list `added_purls`
    dependencies,    \* read_bom's local list `dependencies`
    bom,             \* what was handed to generator.build_json_bom / build_xml_bom
    stdout,          \* the lines printed so far
    http,            \* the requests.get calls issued so far, each with the manifest line
                     \* it was issued for and the answer it got
    error,           \* the exception that left read_bom, or None
    releases,        \* argument of a direct call of get_hashes
    hashes           \* its result, or None before the call

vars == <<pc, manifest, all_components, components, added_purls, dependencies,
          bom, stdout, http, error, releases, hashes>>

bomVars == <<pc, manifest, all_components, components, added_purls, dependencies,
             bom, stdout, http, error>>

----------------------------------------------------------------------------
(* Bounds *)

\* longest manifest read_bom is run on
MaxReqs == 2

\* longest artifact list get_hashes is called on directly
MaxArtifacts == 3

\* longest release index of a registry answer
MaxReleases == 2

----------------------------------------------------------------------------
(* Python helpers *)

None == [none |-> TRUE]

PyNone == "<None>"

\* truth value of a str-or-None
Truthy(s) == s # PyNone /\ s # ""

\* str.strip on the strings of the model: " " is the only one with whitespace
strip(s) == IF s = " " THEN "" ELSE s

\* str.lower on the names of the model
lower(s) == CASE s = "A" -> "a"
              [] s = "B" -> "b"
              [] s = "C" -> "c"
              [] OTHER -> s

Range(s) == {s[i] : i \in 1..Len(s)}

\* all sequences over S of length at most n
SeqUpTo(S, n) == UNION {[1..k -> S] : k \in 0..n}

HasKey(d, k) == \E i \in 1..Len(d) : d[i].key = k

\* dict[k], for a key the dict has
Get(d, k) == d[CHOOSE i \in 1..Len(d) : d[i].key = k].value

\* dict[k] = v: an existing key keeps its position, a new key goes last
Put(d, k, v) ==
    IF HasKey(d, k)
    THEN [i \in 1..Len(d) |-> IF d[i].key = k THEN [key |-> k, value |-> v] ELSE d[i]]
    ELSE Append(d, [key |-> k, value |-> v])

IsDict(d) == \A i, j \in 1..Len(d) : d[i].key = d[j].key => i = j

----------------------------------------------------------------------------
(* Version strings (packaging.version, packaging.utils)                     *)
(*                                                                          *)
(* A version string is modelled by its spelling: the release numbers, the   *)
(* suffix ("" for a final release, else the pre/post/dev segment) and the   *)
(* separator written before the suffix:                                     *)
(*   "1.0"       [release |-> <<1,0>>, sep |-> "",  suffix |-> ""]          *)
(*   "1.0rc1"    [release |-> <<1,0>>, sep |-> "",  suffix |-> "rc1"]       *)
(*   "1.0-rc1"   [release |-> <<1,0>>, sep |-> "-", suffix |-> "rc1"]       *)
(*   "1.0.post1" [release |-> <<1,0>>, sep |-> ".", suffix |-> "post1"]     *)
(* Two version strings are equal as strings iff their records are equal.    *)

VersionString(release, sep, suffix) == [release |-> release, sep |-> sep, suffix |-> suffix]

is_prerelease(v) == v.suffix \in {"rc1", "dev1"}
is_postrelease(v) == v.suffix = "post1"
is_devrelease(v) == v.suffix = "dev1"

\* re.sub(r"(\.0)+$", "", release): trailing zeros go, the first number stays
RECURSIVE StripTrailingZeros(_)
StripTrailingZeros(release) ==
    IF Len(release) > 1 /\ release[Len(release)] = 0
    THEN StripTrailingZeros(SubSeq(release, 1, Len(release) - 1))
    ELSE release

\* packaging.utils.canonicalize_version: the release without trailing zeros,
\* the pre-release segment joined without separator, ".postN" and ".devN"
canonicalize_version(v) ==
    [release |-> StripTrailingZeros(v.release),
     sep     |-> IF v.suffix \in {"post1", "dev1"} THEN "." ELSE "",
     suffix  |-> v.suffix]

----------------------------------------------------------------------------
(* Package URL *)

\* PackageURL("pypi", '', name, version, '', '').to_string(): the pypi type
\* lower-cases the name (and turns "_" into "-", which no name of the model
\* contains); the string is determined by (type, name, version)
generate_purl(package_name, package_version) ==
    [type |-> "pypi", name |-> lower(package_name), version |-> package_version]

----------------------------------------------------------------------------
(* Hash selection *)

Hash(alg, content) == [alg |-> alg, content |-> content]

mapping ==
    << [key |-> "md5",    value |-> "MD5"],
       [key |-> "sha1",   value |-> "SHA-1"],
       [key |-> "sha256", value |-> "SHA-256"],
       [key |-> "sha512", value |-> "SHA-512"] >>

RECURSIVE translate_digests(_)
translate_digests(digests) ==
    IF digests = <<>> THEN <<>>
    ELSE LET k == Head(digests).key
             rest == translate_digests(Tail(digests))
         IN  IF HasKey(mapping, k)
             THEN <<Hash(Get(mapping, k), Head(digests).value)>> \o rest
             ELSE rest

\* hashes[release_hash.alg] = release_hash, for each hash of the list in turn
RECURSIVE PutHashes(_, _)
PutHashes(d, release_hashes) ==
    IF release_hashes = <<>> THEN d
    ELSE PutHashes(Put(d, Head(release_hashes).alg, Head(release_hashes)),
                   Tail(release_hashes))

RECURSIVE CollectHashes(_, _)
CollectHashes(d, relevant_releases) ==
    IF relevant_releases = <<>> THEN d
    ELSE CollectHashes(PutHashes(d, translate_digests(Head(relevant_releases).digests)),
                       Tail(relevant_releases))

get_hashes_first_wins(rels) ==
    LET has_wheel == \E i \in 1..Len(rels) : rels[i].packagetype = "bdist_wheel"
        relevant(r) == \/ has_wheel /\ r.packagetype = "bdist_wheel"
                       \/ ~has_wheel /\ r.packagetype = "sdist"
        relevant_releases == SelectSeq(rels, relevant)
        reversed == [i \in 1..Len(relevant_releases) |->
                        relevant_releases[Len(relevant_releases) + 1 - i]]
        d == CollectHashes(<<>>, reversed)
    IN  [i \in 1..Len(d) |-> d[i].value]

get_hashes(rels) ==
    LET has_wheel == \E i \in 1..Len(rels) : rels[i].packagetype = "bdist_wheel"
        relevant(r) == \/ has_wheel /\ r.packagetype = "bdist_wheel"
                       \/ ~has_wheel /\ r.packagetype = "sdist"
        relevant_releases == SelectSeq(rels, relevant)
        d == CollectHashes(<<>>, relevant_releases)
    IN  [i \in 1..Len(d) |-> d[i].value]

\* position of an algorithm tag in the order of str
AlgOrder(alg) == CASE alg = "MD5" -> 1
                   [] alg = "SHA-1" -> 2
                   [] alg = "SHA-256" -> 3
                   [] alg = "SHA-512" -> 4

\* list.sort() on a list of Hash with pairwise distinct algorithms
RECURSIVE sort(_)
sort(hs) ==
    IF hs = <<>> THEN <<>>
    ELSE LET m == CHOOSE i \in 1..Len(hs) :
                      \A j \in 1..Len(hs) : AlgOrder(hs[i].alg) <= AlgOrder(hs[j].alg)
         IN  <<hs[m]>> \o sort([i \in 1..(Len(hs) - 1) |-> IF i < m THEN hs[i] ELSE hs[i + 1]])

----------------------------------------------------------------------------
(* Registry client *)

Line(text, about) == [text |-> text, about |-> about]

\* requests.get raised a RequestException, or raise_for_status did
RequestException(resp) == resp.exception # "" \/ resp.status_code >= 400

\* the result [ret, exc, out, calls]: the value returned, the exception raised
\* or None, the lines printed and the requests issued
get_package_info_reraise(package_name, package_version, resp) ==
    LET call == [package_name |-> package_name, package_version |-> package_version]
    IN  IF RequestException(resp)
        THEN [ret |-> None, exc |-> [type |-> "RequestException", args |-> <<package_name>>],
              out |-> <<>>, calls |-> <<call>>]
        ELSE [ret |-> resp.json, exc |-> None, out |-> <<>>, calls |-> <<call>>]

get_package_info(package_name, package_version, resp) ==
    LET call == [package_name |-> package_name, package_version |-> package_version]
    IN  IF RequestException(resp)
        THEN [ret |-> None, exc |-> None,
              out |-> <<Line("WARNING: could not retrieve package info", package_name)>>,
              calls |-> <<call>>]
        ELSE [ret |-> resp.json, exc |-> None, out |-> <<>>, calls |-> <<call>>]

----------------------------------------------------------------------------
(* Version normalizer *)

\* the first release of the dict that matches, else None
_get_pypi_version(special_version, release_dict) ==
    LET match(i) == LET release == release_dict[i].key
                        pypi_version == canonicalize_version(release)
                    IN  special_version = pypi_version \/ special_version = release
    IN  IF \E i \in 1..Len(release_dict) : match(i)
        THEN release_dict[CHOOSE i \in 1..Len(release_dict) :
                              match(i) /\ \A j \in 1..(i - 1) : ~match(j)].key
        ELSE None

\* the result [exc, found, release_info]: the exception raised or None, and
\* the value returned: found is FALSE when it is Python's None.  The registry
\* answer has no top-level "name", so evaluating the arguments of ValueError
\* raises KeyError.
get_release_info(package_info, specified_version) ==
    LET releases_info == package_info.releases
        found == HasKey(releases_info, specified_version)
        release_info == IF found THEN Get(releases_info, specified_version) ELSE <<>>
    IN  IF \/ is_prerelease(specified_version)
           \/ is_postrelease(specified_version)
           \/ is_devrelease(specified_version)
        THEN LET pypi_version == _get_pypi_version(specified_version, releases_info)
             IN  IF pypi_version # None
                 THEN [exc |-> None, found |-> TRUE,
                       release_info |-> Get(releases_info, pypi_version)]
                 ELSE [exc |-> [type |-> "KeyError", args |-> <<"name">>],
                       found |-> FALSE, release_info |-> <<>>]
        ELSE [exc |-> None, found |-> found, release_info |-> release_info]

----------------------------------------------------------------------------
(* Component resolver *)

\* cyclonedx.models.Component: the four arguments given, the rest at its defaults
Component(name, version, purl, component_type) ==
    [name |-> name, version |-> version, purl |-> purl, component_type |-> component_type,
     publisher |-> PyNone, description |-> PyNone, requires_dist |-> <<>>,
     licenses |-> <<>>, hashes |-> <<>>]

License(name) == [name |-> name]

ComponentLicense(license) == [license |-> license]

Outcome(ret, exc, out, calls) == [ret |-> ret, exc |-> exc, out |-> out, calls |-> calls]

attach_hashes_unsorted(component, release_info) ==
    [component EXCEPT !.hashes = get_hashes(release_info)]

\* lines 98-99
attach_hashes(component, release_info) ==
    [component EXCEPT !.hashes = sort(get_hashes(release_info))]

\* lines 85-101: the component filled from a registry answer; [component, exc, out]
Populate(component, package_info) ==
    LET package_license == package_info.info.license
        licenses == IF /\ Truthy(package_license)
                       /\ package_license # "UNKNOWN"
                       /\ strip(package_license) # ""
                    THEN Append(component.licenses, ComponentLicense(License(package_license)))
                    ELSE component.licenses
        filled == [component EXCEPT !.publisher = package_info.info.author,
                                    !.description = package_info.info.summary,
                                    !.requires_dist = package_info.info.requires_dist,
                                    !.licenses = licenses]
    IN  IF HasKey(package_info.releases, component.version)
        THEN LET release_info == get_release_info(package_info, component.version)
             IN  IF release_info.exc # None
                 THEN [component |-> filled, exc |-> release_info.exc, out |-> <<>>]
                 ELSE IF ~release_info.found
                 THEN [component |-> filled, out |-> <<>>,
                       exc |-> [type |-> "TypeError", args |-> <<"NoneType">>]]
                 ELSE [component |-> attach_hashes(filled, release_info.release_info),
                       exc |-> None, out |-> <<>>]
        ELSE [component |-> filled, exc |-> None,
              out |-> <<Line("WARNING: could not be found in PyPi", component.name)>>]

\* the result [ret, exc, out, calls]: the component returned or None, the
\* exception raised or None, the lines printed and the requests issued.  An
\* exception raised by a callee leaves get_component as it is.
get_component(req, resp) ==
    IF req.local_file
    THEN Outcome(None, None, <<Line("WARNING: Local file does not have versions. Skipping.", req.path)>>, <<>>)
    ELSE IF req.specs = <<>>
    THEN Outcome(None, None, <<Line("WARNING: does not have a version specified. Skipping.", req.name)>>, <<>>)
    ELSE IF Len(req.specs[1]) < 2
    THEN Outcome(None, None, <<>>, <<>>)
    ELSE
        LET component == Component(req.name, req.specs[1][2],
                                   generate_purl(req.name, req.specs[1][2]), "library")
            unpinned == IF req.specs[1][1] # "=="
                        THEN <<Line("WARNING: is not pinned to a specific version", component.name)>>
                        ELSE <<>>
            package_info == get_package_info(component.name, component.version, resp)
        IN  IF package_info.exc # None
            THEN Outcome(None, package_info.exc, unpinned \o package_info.out, package_info.calls)
            ELSE IF package_info.ret = None
            THEN Outcome(component, None, unpinned \o package_info.out, package_info.calls)
            ELSE LET p == Populate(component, package_info.ret)
                 IN  Outcome(IF p.exc = None THEN p.component ELSE None, p.exc,
                             unpinned \o package_info.out \o p.out, package_info.calls)

----------------------------------------------------------------------------
(* Dependency graph builder *)

\* a declared requirement string "name" or "name; marker"
RequirementString(name, marker) == [name |-> name, marker |-> marker]

\* next(requirements.parse(req)).name
requirement_name(req) == req.name

Dependency(ref, depends_on) == [ref |-> ref, depends_on |-> depends_on]

RECURSIVE depends_on_last_match(_, _)
depends_on_last_match(comps, requires_dist) ==
    IF requires_dist = <<>> THEN <<>>
    ELSE LET name == requirement_name(Head(requires_dist))
             req_component == SelectSeq(comps, LAMBDA c : c.name = name)
         IN  (IF req_component # <<>> THEN <<req_component[Len(req_component)].purl>> ELSE <<>>)
             \o depends_on_last_match(comps, Tail(requires_dist))

\* lines 197-200: the loop over component.requires_dist
RECURSIVE depends_on(_, _)
depends_on(comps, requires_dist) ==
    IF requires_dist = <<>> THEN <<>>
    ELSE LET name == requirement_name(Head(requires_dist))
             req_component == SelectSeq(comps, LAMBDA c : c.name = name)
         IN  (IF req_component # <<>> THEN <<req_component[1].purl>> ELSE <<>>)
             \o depends_on(comps, Tail(requires_dist))

get_dependency(comps, component) ==
    Dependency(component.purl, depends_on(comps, component.requires_dist))

----------------------------------------------------------------------------
(* read_bom *)

deduplicate_keep_last(comps, purls, component) ==
    IF component = None THEN [components |-> comps, added_purls |-> purls]
    ELSE IF component.purl \in Range(purls)
    THEN [components |-> [i \in 1..Len(comps) |->
                             IF comps[i].purl = component.purl THEN component ELSE comps[i]],
          added_purls |-> purls]
    ELSE [components |-> Append(comps, component),
          added_purls |-> Append(purls, component.purl)]

\* lines 44-46: one turn of the loop over all_components
deduplicate(comps, purls, component) ==
    IF component # None /\ component.purl \notin Range(purls)
    THEN [components |-> Append(comps, component),
          added_purls |-> Append(purls, component.purl)]
    ELSE [components |-> comps, added_purls |-> purls]

----------------------------------------------------------------------------
(* Inputs *)

V_1_0       == VersionString(<<1, 0>>, "", "")
V_2_0       == VersionString(<<2, 0>>, "", "")
V_1_0rc1    == VersionString(<<1, 0>>, "", "rc1")
V_1_0_rc1   == VersionString(<<1, 0>>, "-", "rc1")
V_1rc1      == VersionString(<<1>>, "", "rc1")
V_1_0_post1 == VersionString(<<1, 0>>, ".", "post1")
V_1_0_dev1  == VersionString(<<1, 0>>, ".", "dev1")

\* requirement records as the requirements parser yields them
LocalFile(path) == [local_file |-> TRUE, path |-> path, name |-> PyNone, specs |-> <<>>]

Requirement(name, specs) == [local_file |-> FALSE, path |-> PyNone, name |-> name, specs |-> specs]

\* a release artifact of the registry
Artifact(packagetype, digests) == [packagetype |-> packagetype, digests |-> digests]

Entry(k, v) == [key |-> k, value |-> v]

\* the answer of requests.get: the exception it raised ("" if none), the
\* status code and the decoded body of the response
Failure(exception) == [exception |-> exception, status_code |-> 0, json |-> None]

Response(status_code, json) == [exception |-> "", status_code |-> status_code, json |-> json]

PackageInfo(author, summary, requires_dist, license, rels) ==
    [info |-> [author |-> author, summary |-> summary,
               requires_dist |-> requires_dist, license |-> license],
     releases |-> rels]

\* dicts with keys from K (pairwise distinct) and values from V, at most n entries
DictsUpTo(K, V, n) ==
    {d \in SeqUpTo([key : K, value : V], n) : IsDict(d)}

(* read_bom on a manifest of several lines *)

ManifestNames == {"A", "a", "B"}

ManifestSpecs == {<<>>, <<<<"==", V_1_0>>>>, <<<<">=", V_2_0>>>>}

ManifestRequirements ==
    {LocalFile("./pkg")} \cup {Requirement(n, s) : n \in ManifestNames, s \in ManifestSpecs}

ManifestReleases == <<Entry(V_1_0, <<Artifact("sdist", <<Entry("sha256", "aa")>>)>>)>>

ManifestRequiresDist ==
    { <<RequirementString("C", "")>>,
      <<RequirementString("B", "extra == 'x'"), RequirementString("a", ""),
        RequirementString("B", "")>> }

ManifestResponses ==
    {Failure("ConnectionError"), Response(404, None)}
    \cup {Response(200, PackageInfo(author, "lib", rd, "MIT", ManifestReleases)) :
             author \in {"alice", "bob"}, rd \in ManifestRequiresDist}

(* read_bom on a manifest of one line, against any registry answer *)

LineSpecs ==
    {<<>>, <<<<"==">>>>}
    \cup {<<<<op, v>>>> : op \in {"==", ">="},
                          v \in {V_1_0, V_1_0rc1, V_1rc1, V_1_0_post1, V_1_0_dev1}}

LineRequirements == {LocalFile("./pkg")} \cup {Requirement("A", s) : s \in LineSpecs}

IndexVersions == {V_1_0, V_1_0rc1, V_1_0_rc1, V_1rc1}

IndexFiles ==
    { <<>>,
      <<Artifact("sdist", <<Entry("md5", "m1"), Entry("sha256", "s1")>>)>>,
      <<Artifact("sdist", <<Entry("sha256", "s2")>>),
        Artifact("bdist_wheel", <<Entry("blake2b_256", "b3"), Entry("sha256", "s3"),
                                  Entry("md5", "m3")>>)>> }

LineResponses ==
    {Failure("Timeout"), Response(404, None)}
    \cup {Response(200, PackageInfo(text, text, <<>>, license, rels)) :
             text \in {"text", ""},
             license \in {"MIT", "UNKNOWN", " "},
             rels \in DictsUpTo(IndexVersions, IndexFiles, MaxReleases)}

(* get_hashes on any artifact list *)

PackageTypes == {"bdist_wheel", "sdist", "bdist_egg"}

Digests == DictsUpTo({"md5", "sha256", "blake2b_256"}, {"aa", "bb"}, 1)
           \cup {<<Entry("sha256", "cc"), Entry("md5", "dd")>>}

Artifacts == {Artifact(t, d) : t \in PackageTypes, d \in Digests}

----------------------------------------------------------------------------
(* State machine *)

InitBom ==
    /\ pc = "resolve"
    /\ manifest = <<>>
    /\ all_components = <<>>
    /\ components = <<>>
    /\ added_purls = <<>>
    /\ dependencies = <<>>
    /\ bom = None
    /\ stdout = <<Line("Generating CycloneDX BOM", "")>>
    /\ http = <<>>
    /\ error = None

Init ==
    /\ InitBom
    /\ releases = <<>>
    /\ hashes = None

\* lines 38-46: the generator yields req, get_component resolves it against
\* the registry's answer resp, and the loop body deduplicates the result
Resolve(req, resp) ==
    LET line == Len(manifest) + 1
        r == get_component(req, resp)
        d == deduplicate(components, added_purls, r.ret)
    IN  /\ manifest' = Append(manifest, req)
        /\ stdout' = stdout \o r.out
        /\ http' = http \o [i \in 1..Len(r.calls) |->
                               [line |-> line, response |-> resp,
                                package_name |-> r.calls[i].package_name,
                                package_version |-> r.calls[i].package_version]]
        /\ IF r.exc # None
           THEN /\ pc' = "raised"
                /\ error' = r.exc
                /\ UNCHANGED <<all_components, components, added_purls>>
           ELSE /\ all_components' = Append(all_components, r.ret)
                /\ components' = d.components
                /\ added_purls' = d.added_purls
                /\ UNCHANGED <<pc, error>>
        /\ UNCHANGED <<dependencies, bom, releases, hashes>>

ResolveNext ==
    /\ pc = "resolve"
    /\ Len(manifest) < MaxReqs
    /\ \E req \in ManifestRequirements, resp \in ManifestResponses : Resolve(req, resp)

ResolveLine ==
    /\ pc = "resolve"
    /\ manifest = <<>>
    /\ \E req \in LineRequirements, resp \in LineResponses : Resolve(req, resp)

\* the generator is exhausted: the loop of line 43 ends
ManifestExhausted ==
    /\ pc = "resolve"
    /\ pc' = "dependencies"
    /\ UNCHANGED <<manifest, all_components, components, added_purls, dependencies,
                   bom, stdout, http, error, releases, hashes>>

\* lines 48-50
BuildDependencies ==
    /\ pc = "dependencies"
    /\ dependencies' = [i \in 1..Len(components) |-> get_dependency(components, components[i])]
    /\ pc' = "generate"
    /\ UNCHANGED <<manifest, all_components, components, added_purls,
                   bom, stdout, http, error, releases, hashes>>

\* lines 52-57
Generate ==
    /\ pc = "generate"
    /\ \E json \in BOOLEAN :
          bom' = [format |-> IF json THEN "json" ELSE "xml",
                  components |-> components, dependencies |-> dependencies]
    /\ pc' = "done"
    /\ UNCHANGED <<manifest, all_components, components, added_purls, dependencies,
                   stdout, http, error, releases, hashes>>

Next == ResolveNext \/ ManifestExhausted \/ BuildDependencies \/ Generate

Spec == Init /\ [][Next]_vars

NextLine == ResolveLine \/ ManifestExhausted \/ BuildDependencies \/ Generate

SpecLine == Init /\ [][NextLine]_vars

\* a direct call of get_hashes
InitHashes ==
    /\ InitBom
    /\ releases \in SeqUpTo(Artifacts, MaxArtifacts)
    /\ hashes = None

GetHashes ==
    /\ hashes = None
    /\ hashes' = [ret |-> get_hashes(releases)]
    /\ UNCHANGED <<releases>>
    /\ UNCHANGED bomVars

NextHashes == GetHashes

SpecHashes == InitHashes /\ [][NextHashes]_vars

----------------------------------------------------------------------------
(* Properties of read_bom on a manifest of several lines (Spec) *)

Yielded(j) == j \in 1..Len(all_components) /\ all_components[j] # None

\* line j is the first line of the manifest that produced the identifier p
FirstWith(j, p) ==
    /\ Yielded(j)
    /\ all_components[j].purl = p
    /\ \A k \in 1..(j - 1) : Yielded(k) => all_components[k].purl # p

FirstLine(p) == CHOOSE j \in 1..Len(all_components) : FirstWith(j, p)

\* C1: the component list handed to the serializer has no two components with
\* the same identifier, holds for every identifier the component resolved from
\* the first manifest line that produced it, is in first-seen manifest order
\* and contains no skipped result.
C1_DeduplicatedFirstSeen ==
    pc = "done" =>
        LET cs == bom.components
        IN  /\ \A i, j \in 1..Len(cs) : cs[i].purl = cs[j].purl => i = j
            /\ \A i \in 1..Len(cs) :
                  /\ cs[i] # None
                  /\ \E j \in 1..Len(all_components) :
                        FirstWith(j, cs[i].purl) /\ cs[i] = all_components[j]
            /\ \A j \in 1..Len(all_components) :
                  Yielded(j) => \E i \in 1..Len(cs) : cs[i].purl = all_components[j].purl
            /\ \A i, j \in 1..Len(cs) :
                  i < j => FirstLine(cs[i].purl) < FirstLine(cs[j].purl)

\* two lines resolved to the same identifier with different data, and the
\* list handed over holds the component of the first of them only
C1_Witness ==
    /\ pc = "done"
    /\ \E i, j \in 1..Len(all_components) :
          /\ i < j /\ Yielded(i) /\ Yielded(j)
          /\ all_components[i].purl = all_components[j].purl
          /\ all_components[i] # all_components[j]
          /\ bom.components = <<all_components[i]>>

Failed(h) == RequestException(h.response)

IsSkip(req) ==
    \/ req.local_file
    \/ req.specs = <<>>
    \/ Len(req.specs[1]) < 2

\* every line printed but the banner of line 37 is a warning
IsWarning(line) == line.text # "Generating CycloneDX BOM"

NumWarnings(lines) == Cardinality({i \in 1..Len(lines) : IsWarning(lines[i])})

CountLines(text) == Cardinality({i \in 1..Len(stdout) : stdout[i].text = text})

\* C3: a failed registry lookup does not raise; it prints one warning, the
\* component of that line carries name, version, identifier and type only,
\* and every following line of the manifest is still resolved.
C3_FailedLookupDegrades ==
    /\ (\E k \in 1..Len(http) : Failed(http[k])) => pc # "raised" /\ error = None
    /\ CountLines("WARNING: could not retrieve package info")
          = Cardinality({k \in 1..Len(http) : Failed(http[k])})
    /\ \A k \in 1..Len(http) :
          Failed(http[k]) =>
             LET line == http[k].line
                 req == manifest[line]
                 c == all_components[line]
             IN  /\ line <= Len(all_components)
                 /\ c # None
                 /\ c.name = req.name
                 /\ c.version = req.specs[1][2]
                 /\ c.purl = generate_purl(req.name, req.specs[1][2])
                 /\ c.component_type = "library"
                 /\ c.publisher = PyNone /\ c.description = PyNone
                 /\ c.requires_dist = <<>> /\ c.licenses = <<>> /\ c.hashes = <<>>
                 /\ \A j \in (line + 1)..Len(manifest) :
                       /\ j <= Len(all_components)
                       /\ ~IsSkip(manifest[j]) =>
                             /\ all_components[j] # None
                             /\ \E m \in 1..Len(http) : http[m].line = j

\* the lookup of the first line failed and the second line was resolved with
\* the registry's metadata
C3_Witness ==
    /\ Len(http) = 2
    /\ http[1].line = 1 /\ Failed(http[1])
    /\ http[2].line = 2 /\ ~Failed(http[2])
    /\ Len(all_components) = 2
    /\ all_components[1] # None /\ all_components[1].publisher = PyNone
    /\ all_components[2] # None /\ all_components[2].publisher = "alice"

\* the first component of the list with this name, and whether there is one
Named(cs, name) == \E i \in 1..Len(cs) : cs[i].name = name

FirstNamed(cs, name) ==
    cs[CHOOSE i \in 1..Len(cs) :
           cs[i].name = name /\ \A j \in 1..(i - 1) : cs[j].name # name]

\* C8: one dependency record per component of the deduplicated list, in the
\* same order, owned by that component; its targets are exactly the identifiers
\* of the first component named by each declared requirement that names a
\* resolved component, so requirements naming no resolved component add nothing.
C8_OneRecordPerComponent ==
    pc \in {"generate", "done"} =>
        /\ Len(dependencies) = Len(components)
        /\ pc = "done" => bom.dependencies = dependencies /\ bom.components = components
        /\ \A i \in 1..Len(components) :
              LET rd == components[i].requires_dist
                  resolvable == {k \in 1..Len(rd) : Named(components, rd[k].name)}
              IN  /\ dependencies[i].ref = components[i].purl
                  /\ Range(dependencies[i].depends_on)
                        = {FirstNamed(components, rd[k].name).purl : k \in resolvable}

\* two components share a name, one record targets the first of them and
\* another record is empty because its only requirement names no component
C8_Witness ==
    /\ pc = "done"
    /\ Len(components) = 2
    /\ components[1].name = components[2].name
    /\ dependencies[1].depends_on # <<>>
    /\ components[1].purl \in Range(dependencies[1].depends_on)
    /\ components[2].requires_dist # <<>>
    /\ dependencies[2].depends_on = <<>>

\* C9: the targets of a dependency record hold no identifier twice, also when
\* several declared requirements name the same package, and they follow the
\* order in which their requirements first appear among the declared ones.
C9_TargetsAreAnOrderedSet ==
    pc \in {"generate", "done"} =>
        \A i \in 1..Len(dependencies) :
            LET t == dependencies[i].depends_on
                rd == components[i].requires_dist
                names(k, p) == /\ Named(components, rd[k].name)
                               /\ FirstNamed(components, rd[k].name).purl = p
                first(p) == CHOOSE k \in 1..Len(rd) :
                                names(k, p) /\ \A m \in 1..(k - 1) : ~names(m, p)
            IN  /\ \A a, b \in 1..Len(t) : t[a] = t[b] => a = b
                /\ \A a, b \in 1..Len(t) : a < b => first(t[a]) < first(t[b])

\* the order alone, which the code keeps: the targets are listed by the
\* position of the requirement that produced them
C9_TargetsInRequirementOrder ==
    pc \in {"generate", "done"} =>
        \A i \in 1..Len(dependencies) :
            dependencies[i].depends_on = depends_on(components, components[i].requires_dist)

\* C10: lookups are issued one per line in manifest order, and never for a
\* line whose identifier an earlier line already put into the component list.
C10_NoRedundantLookup ==
    /\ \A a, b \in 1..Len(http) : a < b => http[a].line < http[b].line
    /\ \A k \in 1..Len(http) :
          \A j \in 1..(http[k].line - 1) :
              Yielded(j) =>
                  all_components[j].purl
                      # generate_purl(http[k].package_name, http[k].package_version)

----------------------------------------------------------------------------
(* Properties of read_bom on a manifest of one line (SpecLine) *)

Resolved == Len(manifest) = 1 /\ pc # "raised"

\* the line is not skipped and its lookup got a registry answer
Answered == Resolved /\ Len(http) = 1 /\ ~Failed(http[1])

RequestedVersion == manifest[1].specs[1][2]

Index == http[1].response.json.releases

IsSpecial(v) == is_prerelease(v) \/ is_postrelease(v) \/ is_devrelease(v)

\* C2: a requirement that meets a skip condition produces no component,
\* prints exactly one warning and issues no registry lookup.
C2_SkipWarnsOnce ==
    (Len(manifest) = 1 /\ IsSkip(manifest[1])) =>
        /\ error = None
        /\ all_components = <<None>>
        /\ NumWarnings(stdout) = 1
        /\ http = <<>>

\* what the code does on the malformed specifier: nothing is printed
C2_MalformedIsSilent ==
    (/\ Len(manifest) = 1
     /\ ~manifest[1].local_file
     /\ manifest[1].specs # <<>>
     /\ Len(manifest[1].specs[1]) < 2) =>
        /\ all_components = <<None>>
        /\ NumWarnings(stdout) = 0
        /\ http = <<>>

\* index key i is the requested version, verbatim or in canonical form
Equivalent(i, v) ==
    \/ Index[i].key = v
    \/ canonicalize_version(Index[i].key) = canonicalize_version(v)

\* C4: a special version that no key of the release index matches, neither
\* verbatim nor in canonical form, ends resolution with an error that carries
\* the package name and the requested version.
C4_NoMatchIsHardError ==
    (/\ Len(manifest) = 1
     /\ ~IsSkip(manifest[1])
     /\ Len(http) = 1 /\ ~Failed(http[1])
     /\ IsSpecial(RequestedVersion)
     /\ \A i \in 1..Len(Index) : ~Equivalent(i, RequestedVersion)) =>
        /\ pc = "raised"
        /\ error # None
        /\ error.args = <<manifest[1].name, RequestedVersion>>

\* what the code does there: no exception ever leaves read_bom
C4_NeverRaises == pc # "raised" /\ error = None

\* C5: a special version that is no verbatim key of the release index, while
\* some key has the same canonical form, gets the hashes of the first such key.
C5_CanonicalMatchGetsHashes ==
    (/\ Answered
     /\ IsSpecial(RequestedVersion)
     /\ ~HasKey(Index, RequestedVersion)
     /\ \E i \in 1..Len(Index) : Equivalent(i, RequestedVersion)) =>
        LET first == CHOOSE i \in 1..Len(Index) :
                        /\ Equivalent(i, RequestedVersion)
                        /\ \A j \in 1..(i - 1) : ~Equivalent(j, RequestedVersion)
        IN  /\ all_components[1] # None
            /\ all_components[1].hashes = sort(get_hashes(Index[first].value))

\* the index key whose artifacts get_release_info returns for a version that
\* is a key of the index
MatchedKey(v) ==
    IF IsSpecial(v)
    THEN Index[CHOOSE i \in 1..Len(Index) :
                  /\ v = canonicalize_version(Index[i].key) \/ v = Index[i].key
                  /\ \A j \in 1..(i - 1) :
                        ~(v = canonicalize_version(Index[j].key) \/ v = Index[j].key)].key
    ELSE v

Pinned == Answered /\ manifest[1].specs[1][1] = "==" /\ HasKey(Index, RequestedVersion)

IsSorted(hs) == \A a, b \in 1..Len(hs) : a < b => AlgOrder(hs[a].alg) < AlgOrder(hs[b].alg)

Recognized == {"md5", "sha1", "sha256", "sha512"}

\* the artifacts get_hashes keeps from a list: the wheels if there is one,
\* else the source distributions
Kept(rels) ==
    IF \E i \in 1..Len(rels) : rels[i].packagetype = "bdist_wheel"
    THEN {i \in 1..Len(rels) : rels[i].packagetype = "bdist_wheel"}
    ELSE {i \in 1..Len(rels) : rels[i].packagetype = "sdist"}

Provides(rels) ==
    \E i \in Kept(rels), a \in Recognized : HasKey(rels[i].digests, a)

\* C7 as claimed: an exact pin with a registry answer and a matching release
\* key gives a non-empty sorted hash list and a populated publisher and
\* description.
C7_PinnedIsFullyPopulated ==
    Pinned =>
        LET c == all_components[1]
        IN  /\ c # None
            /\ c.hashes # <<>>
            /\ IsSorted(c.hashes)
            /\ Truthy(c.publisher)
            /\ Truthy(c.description)

\* C7 as amended: the hash list is sorted by algorithm name and is non-empty
\* exactly when the artifacts kept from the matched release provide a
\* recognized algorithm; publisher and description are the author and summary
\* of the registry answer, whatever they are.
C7_PinnedCarriesRegistryData ==
    Pinned =>
        LET c == all_components[1]
            info == http[1].response.json.info
            files == Get(Index, MatchedKey(RequestedVersion))
        IN  /\ c # None
            /\ IsSorted(c.hashes)
            /\ c.hashes # <<>> <=> Provides(files)
            /\ c.publisher = info.author
            /\ c.description = info.summary

\* an exact pin on a release whose wheel lists sha256 before md5: both hashes
\* are attached, and author and summary are populated
C7_Witness ==
    /\ Pinned
    /\ all_components[1] # None
    /\ Len(all_components[1].hashes) = 2
    /\ all_components[1].hashes[1].alg = "MD5"
    /\ all_components[1].hashes[1].content = "m3"
    /\ Truthy(all_components[1].publisher)
    /\ Truthy(all_components[1].description)

----------------------------------------------------------------------------
(* Properties of get_hashes (SpecHashes) *)

Tag(a) == Get(mapping, a)

\* C6: get_hashes returns exactly one hash per recognized algorithm that a
\* kept artifact provides, with the digest of the last kept artifact that
\* provides it; other artifacts and other algorithms contribute nothing.
C6_LastKeptArtifactWins ==
    hashes # None =>
        LET out == hashes.ret
        IN  /\ \A k \in 1..Len(out) : \E a \in Recognized : out[k].alg = Tag(a)
            /\ \A a \in Recognized :
                  LET providers == {i \in Kept(releases) : HasKey(releases[i].digests, a)}
                      last == CHOOSE i \in providers : \A j \in providers : j <= i
                      at == {k \in 1..Len(out) : out[k].alg = Tag(a)}
                  IN  IF providers = {}
                      THEN at = {}
                      ELSE /\ Cardinality(at) = 1
                           /\ \A k \in at : out[k].content = Get(releases[last].digests, a)

\* a source distribution and two wheels: the wheels win over the source
\* distribution and the second wheel over the first
C6_Witness ==
    /\ hashes # None
    /\ Len(releases) = 3
    /\ releases[1] = Artifact("sdist", <<Entry("sha256", "aa")>>)
    /\ releases[2] = Artifact("bdist_wheel", <<Entry("sha256", "bb")>>)
    /\ releases[3] = Artifact("bdist_wheel", <<Entry("sha256", "cc"), Entry("md5", "dd")>>)
    /\ hashes.ret = <<Hash("SHA-256", "cc"), Hash("MD5", "dd")>>

====
